---- MODULE Spec2Model ----
(***************************************************************************)
(* Fractal labyrinth (Timus 1623): the Template of a self-similar house    *)
(* and the DistMatrix that fills a table of shortest distances between the *)
(* doors of the outer room and of its direct inner rooms.                  *)
(*                                                                         *)
(* The model follows src/template.py (Template) and src/dist_matrix.py     *)
(* (DistMatrix).  A state is taken after every write to the matrix and at  *)
(* every call of _add_road: the iterations of _propagate that only read    *)
(* and `continue` change nothing but loop counters and are folded into the *)
(* step that performs the next write.  The debugging counter `_counter`    *)
(* and the LOG output do not influence any value and are left out.         *)
(***************************************************************************)
EXTENDS Integers, Sequences, FiniteSets, TLC

\* Bounds of the explored inputs.
MaxDoors == 3
MaxRooms == 1
MaxLinks == 3

\* Ranges of the problem statement (module docstring).
MinDoors == 2
MinRooms == 0
LimitDoors == 20
LimitRooms == 5

\* Python's `int | None`: None is the empty tuple, an integer v is <<v>>.
None == <<>>
Some(v) == <<v>>

VARIABLES
  rooms,                \* Template.rooms
  doors,                \* Template.doors
  plain_links,          \* the InitVar plain_links given to Template(...)
  links,                \* Template.links, an insertion-ordered dict
  data,                 \* DistMatrix._data
  updated_outer_links,  \* the local set of _fill, shared by reference
  pc,                   \* position of the construction
  seed,                 \* position of the all_links() generator in _fill
  upd,                  \* locals of the active _update call
  prop,                 \* locals of the active _add_road/_propagate call
  run,                  \* how many times _fill has been started
  written,              \* history: every (i, j, value) ever passed to _set
  walks,                \* the labyrinth's shortest walks, when measured
  printed,              \* the text of the template, once timus_repr made it
  reread                \* the Template that from_input built from the text

vars == <<rooms, doors, plain_links, links, data, updated_outer_links,
          pc, seed, upd, prop, run, written, walks, printed, reread>>

(***************************************************************************)
(* Template                                                                *)
(***************************************************************************)

\* NodeIndex(room, door) is the tuple <<room, door>>.
NodeIndex(room, door) == <<room, door>>

\* Tuple comparison `node2 < node1` of two NodeIndex values.
NodeLess(n, m) == n[1] < m[1] \/ (n[1] = m[1] /\ n[2] < m[2])

\* self.links.setdefault(key, []).append(value) on an ordered dict, kept as
\* a sequence of [node, nbrs] entries in insertion order.
SetDefaultAppend(ls, key, value) ==
  IF \E k \in 1..Len(ls) : ls[k].node = key
  THEN [k \in 1..Len(ls) |->
          IF ls[k].node = key
          THEN [node |-> key, nbrs |-> Append(ls[k].nbrs, value)]
          ELSE ls[k]]
  ELSE Append(ls, [node |-> key, nbrs |-> <<value>>])

\* Template.__post_init__: the loop over plain_links, from link k on.
RECURSIVE PostInit(_, _, _)
PostInit(pl, k, ls) ==
  IF k > Len(pl) THEN ls
  ELSE PostInit(pl, k + 1,
         SetDefaultAppend(SetDefaultAppend(ls, pl[k][1], pl[k][2]),
                          pl[k][2], pl[k][1]))

\* The links that all_links() yields for one dict entry, from neighbour n on.
RECURSIVE LinksOfEntry(_, _)
LinksOfEntry(e, n) ==
  IF n > Len(e.nbrs) THEN <<>>
  ELSE IF NodeLess(e.nbrs[n], e.node) THEN LinksOfEntry(e, n + 1)
  ELSE <<(<<e.node, e.nbrs[n]>>)>> \o LinksOfEntry(e, n + 1)

\* Template.all_links(): everything the generator yields, in order.
RECURSIVE AllLinksFrom(_, _)
AllLinksFrom(ls, k) ==
  IF k > Len(ls) THEN <<>>
  ELSE LinksOfEntry(ls[k], 1) \o AllLinksFrom(ls, k + 1)

all_links == AllLinksFrom(links, 1)

(***************************************************************************)
(* DistMatrix: storage                                                     *)
(***************************************************************************)

total_nodes == (rooms + 1) * doors

\* DistMatrix._get_node_index
GetNodeIndex(room, door) == room * doors + door

\* The pairs of node indices that _fill computes for the links `al`.
LinkedPairs(al) ==
  {<<GetNodeIndex(al[k][1][1], al[k][1][2]),
     GetNodeIndex(al[k][2][1], al[k][2][2])>> : k \in 1..Len(al)}

\* DistMatrix._is_outer_node
IsOuterNode(node_index) == node_index < doors

\* DistMatrix._get_outer_node_door
GetOuterNodeDoor(node_index) == node_index

\* Variant: `range(1, self._template.rooms)` leaves the last room out.
LastRoomShort == rooms - 1

\* The last value of `for room in range(1, self._template.rooms + 1)`
LastRoom == rooms

\* `x >> 1` on a non-negative integer
Shr1(x) == x \div 2

\* Variant: the swap written as two assignments in a row, which leaves both
\* names holding node2_index.
GetLocationLostSwap(node1_index, node2_index) ==
  LET lo == IF node1_index > node2_index THEN node2_index ELSE node1_index
      hi == node2_index
  IN total_nodes * lo - Shr1(lo * (lo + 1)) + (hi - lo - 1)

\* DistMatrix._get_location
GetLocation(node1_index, node2_index) ==
  LET lo == IF node1_index > node2_index THEN node2_index ELSE node1_index
      hi == IF node1_index > node2_index THEN node1_index ELSE node2_index
  IN total_nodes * lo - Shr1(lo * (lo + 1)) + (hi - lo - 1)

\* Position k of a Python list of length n: a negative k counts from the end.
\* The list d is kept as a sequence, so position k of the list is d[k + 1].
ListIndex(n, k) == IF k < 0 THEN k + n ELSE k

\* DistMatrix._get on the list d
Get(d, node1_index, node2_index) ==
  IF node1_index = node2_index THEN Some(0)
  ELSE d[ListIndex(Len(d), GetLocation(node1_index, node2_index)) + 1]

\* DistMatrix._set on the list d
Set(d, node1_index, node2_index, dist) ==
  [d EXCEPT ![ListIndex(Len(d), GetLocation(node1_index, node2_index)) + 1] =
              Some(dist)]

\* [None] * (total_nodes * (total_nodes - 1) >> 1)
EmptyData == [k \in 1..Shr1(total_nodes * (total_nodes - 1)) |-> None]

(***************************************************************************)
(* DistMatrix: _add_road and _propagate                                    *)
(***************************************************************************)

\* Variants of the test: `<` for `<=`, no comparison at all, no test.
ImprovesOrEqual(cur_dist, dist) == cur_dist = None \/ cur_dist[1] >= dist
ImprovesUnknown(cur_dist, dist) == cur_dist = None
ImprovesAlways(cur_dist, dist) == TRUE

\* The test of _add_road and of the inner loop of _propagate:
\* `cur_dist is not None and cur_dist <= dist` means nothing is written.
Improves(cur_dist, dist) == cur_dist = None \/ cur_dist[1] > dist

\* Variants: the updated pair is not recorded, or recorded whatever its nodes.
RecordNothing(u, i, j) == u
RecordAny(u, i, j) == u \cup {<<i, j>>}

\* The set's add after a _set: only pairs of outer nodes are recorded.
Record(u, i, j) ==
  IF IsOuterNode(i) /\ IsOuterNode(j) THEN u \cup {<<i, j>>} ELSE u

\* Variants: the new road is left out of the sum, or counted twice over.
PathLengthNoRoad(left_dist, length, right_dist) == left_dist + right_dist
PathLengthExtra(left_dist, length, right_dist) ==
  left_dist + length + right_dist + 1

\* dist = left_dist + length + right_dist
PathLength(left_dist, length, right_dist) == left_dist + length + right_dist

\* Variant: the test `node_i_index == node1_index and node_j_index ==
\* node2_index` has lost its first half.
WritingColumnsSkipB(d, a, b, length, i, j, left) ==
  {y \in j..(total_nodes - 1) :
     /\ ~(y = a \/ y = b)
     /\ Get(d, b, y) # None
     /\ Improves(Get(d, i, y), PathLength(left[1], length, Get(d, b, y)[1]))}

\* The inner loop of _propagate in row i, from column j on: the columns at
\* which the iteration reaches self._set.  (Nothing is written before the
\* first of them, so they are all judged on the list d as it is.)
WritingColumns(d, a, b, length, i, j, left) ==
  {y \in j..(total_nodes - 1) :
     /\ ~(y = a \/ (i = a /\ y = b))
     /\ Get(d, b, y) # None
     /\ Improves(Get(d, i, y), PathLength(left[1], length, Get(d, b, y)[1]))}

\* _propagate(a, b, ..., length) from loop position (i, j) on the list d:
\* the first iteration that reaches self._set, or found = FALSE when the
\* loops run out.  left is the left_dist read on entering row i (None while
\* row i has not been entered).
RECURSIVE NextWrite(_, _, _, _, _, _, _)
NextWrite(d, a, b, length, i, j, left) ==
  IF i >= total_nodes THEN [found |-> FALSE]
  ELSE IF left = None
  THEN IF i = b \/ Get(d, i, a) = None
       THEN NextWrite(d, a, b, length, i + 1, 0, None)
       ELSE NextWrite(d, a, b, length, i, 0, Get(d, i, a))
  ELSE LET cols == WritingColumns(d, a, b, length, i, j, left)
       IN IF cols = {}
          THEN NextWrite(d, a, b, length, i + 1, 0, None)
          ELSE LET y == CHOOSE c \in cols : \A e \in cols : c <= e
               IN [found |-> TRUE, i |-> i, j |-> y, left |-> left,
                   dist |-> PathLength(left[1], length, Get(d, b, y)[1])]

\* (before is history: the list as it was when _propagate was called.)
NoCall == [a |-> 0, b |-> 0, length |-> 0, i |-> 0, j |-> 0, left |-> None,
           ret |-> "none", before |-> <<>>]
NoUpdate == [node1 |-> 0, node2 |-> 0, dist |-> None, room |-> 0]

\* _add_road(node1_index, node2_index, updated_outer_links, length), called
\* from position `ret`, to which it returns at once when the road improves
\* nothing.
AddRoad(a, b, length, ret) ==
  IF ~Improves(Get(data, a, b), length)
  THEN /\ UNCHANGED <<data, updated_outer_links, prop, written>>
       /\ pc' = ret
  ELSE /\ data' = Set(data, a, b, length)
       /\ updated_outer_links' = Record(updated_outer_links, a, b)
       /\ written' = written \cup {<<a, b, length>>}
       /\ prop' = [a |-> a, b |-> b, length |-> length, i |-> 0, j |-> 0,
                   left |-> None, ret |-> ret,
                   before |-> Set(data, a, b, length)]
       /\ pc' = "propagate"


(***************************************************************************)
(* The same code run to completion on a pair [data, links] that holds the  *)
(* list and the set of updated outer links.                                *)
(***************************************************************************)

\* _propagate from loop position (i, j) until the loops run out.
RECURSIVE PropagateAll(_, _, _, _, _, _, _)
PropagateAll(st, a, b, length, i, j, left) ==
  LET w == NextWrite(st.data, a, b, length, i, j, left)
  IN IF ~w.found THEN st
     ELSE PropagateAll([data |-> Set(st.data, w.i, w.j, w.dist),
                        links |-> Record(st.links, w.i, w.j)],
                       a, b, length, w.i, w.j + 1, w.left)

\* _add_road, with the _propagate it calls.
AddRoadAll(st, a, b, length) ==
  IF ~Improves(Get(st.data, a, b), length) THEN st
  ELSE PropagateAll([data |-> Set(st.data, a, b, length),
                     links |-> Record(st.links, a, b)],
                    a, b, length, 0, 0, None)

\* _update after the pop of (node1, node2): the rooms from `room` on.
RECURSIVE UpdateAll(_, _, _, _, _)
UpdateAll(st, node1, node2, dist, room) ==
  IF room > LastRoom THEN st
  ELSE UpdateAll(AddRoadAll(st,
                            GetNodeIndex(room, GetOuterNodeDoor(node1)),
                            GetNodeIndex(room, GetOuterNodeDoor(node2)),
                            dist),
                 node1, node2, dist, room + 1)

\* The least pair of a non-empty set of pairs of integers.
LeastPair(S) ==
  CHOOSE p \in S : \A q \in S : p[1] < q[1] \/ (p[1] = q[1] /\ p[2] <= q[2])

\* _fill's first loop over the links in `pairs`, least pair first.
RECURSIVE SeedSorted(_, _)
SeedSorted(st, pairs) ==
  IF pairs = {} THEN st
  ELSE LET l == LeastPair(pairs)
       IN SeedSorted(AddRoadAll(st, l[1], l[2], 1), pairs \ {l})

\* _fill's while loop with a pop that returns the least pair.
RECURSIVE LoopSorted(_)
LoopSorted(st) ==
  IF st.links = {} THEN st
  ELSE LET l == LeastPair(st.links)
       IN LoopSorted(UpdateAll([st EXCEPT !.links = @ \ {l}], l[1], l[2],
                               Get(st.data, l[1], l[2])[1], 1))

\* _fill on the links al in sorted order and with sorted pops.
FillSorted(al) ==
  LoopSorted(SeedSorted([data |-> EmptyData, links |-> {}], LinkedPairs(al)))


(***************************************************************************)
(* The labyrinth itself (module docstring): every inner room is an entire  *)
(* copy of the outer one, links included, to any depth.  A node of the     *)
(* matrix is a door of the outer room or of a direct inner room; a walk    *)
(* between two of them uses links of the template and excursions through   *)
(* the inside of an inner room r, and an excursion from door a to door b   *)
(* of room r is a copy of a walk from outer door a to outer door b.        *)
(* Walks are measured per parity of their length: w[i][2*j + p] is the     *)
(* length of the shortest walk of parity p from node i to node j.          *)
(***************************************************************************)

Plus(x, y) == IF x = None \/ y = None THEN None ELSE Some(x[1] + y[1])
Min(x, y) ==
  IF x = None THEN y ELSE IF y = None THEN x
  ELSE IF x[1] <= y[1] THEN x ELSE y

AllNodes == 0..(total_nodes - 1)
WalkEnds == 0..(2 * total_nodes - 1)

\* One move from node i to node j that changes the parity by q: a link
\* (length 1), or an excursion through the inside of the inner room both
\* nodes belong to, as long as a walk `inside` between the outer doors.
Move(pairs, inside, i, j, q) ==
  LET link == IF q = 1 /\ (<<i, j>> \in pairs \/ <<j, i>> \in pairs)
              THEN Some(1) ELSE None
      excursion ==
        IF i >= doors /\ j >= doors /\ (i \div doors) = (j \div doors)
        THEN inside[i % doors][2 * (j % doors) + q]
        ELSE None
  IN IF i = j /\ q = 0 THEN Some(0) ELSE Min(link, excursion)

\* The walk of w from node k \div 2, reached with parity k % 2, to end y.
Onward(w, k, y) ==
  w[k \div 2][IF k % 2 = 0 THEN y ELSE IF y % 2 = 0 THEN y + 1 ELSE y - 1]

\* Shortest walks made of moves (Floyd-Warshall over the intermediate ends).
RECURSIVE Closure(_, _)
Closure(k, w) ==
  IF k > 2 * total_nodes - 1 THEN w
  ELSE LET next == [i \in AllNodes |-> [y \in WalkEnds |->
                      Min(w[i][y], Plus(w[i][k], Onward(w, k, y)))]]
       IN IF next = w THEN Closure(k + 1, w) ELSE Closure(k + 1, next)

\* Shortest walks when the inside of the inner rooms offers `inside`.
OneLevelDeeper(pairs, inside) ==
  LET moves == [i \in AllNodes |-> [y \in WalkEnds |->
                  Move(pairs, inside, i, y \div 2, y % 2)]]
  IN IF moves = inside THEN Closure(0, inside) ELSE Closure(0, moves)

\* Shortest walks at unbounded depth: one more level until nothing changes.
RECURSIVE Deepen(_, _)
Deepen(pairs, inside) ==
  LET w == OneLevelDeeper(pairs, inside)
  IN IF w = inside THEN w ELSE Deepen(pairs, w)

NoWalks == [i \in AllNodes |-> [y \in WalkEnds |->
              IF y = 2 * i THEN Some(0) ELSE None]]

\* The shortest walks of the labyrinth whose template yields the links al.
ShortestWalks(al) == Deepen(LinkedPairs(al), NoWalks)

\* Length of the shortest path between nodes i and j in the table w.
ShortestPath(w, i, j) == Min(w[i][2 * j], w[i][2 * j + 1])

\* A walk of length exactly k joins the distinct nodes i and j: a walk can
\* be lengthened by 2 (one link back and forth), not by 1.
WalkOfLength(w, i, j, k) ==
  LET shortest == w[i][2 * j + (k % 2)]
  IN shortest # None /\ shortest[1] <= k

(***************************************************************************)
(* Construction                                                            *)
(***************************************************************************)

Nodes(D, R) == {NodeIndex(r, d) : r \in 0..R, d \in 0..(D - 1)}
SeqsUpTo(S, n) == UNION {[1..k -> S] : k \in 0..n}
CanonicalLinks(D, R) ==
  {l \in Nodes(D, R) \X Nodes(D, R) : ~NodeLess(l[2], l[1])}

\* Values of `walks` before the template exists: the labyrinth is measured
\* when the template is built, or not at all.
ToMeasure == "to measure"
NotMeasured == "not measured"

Start ==
  /\ doors \in MinDoors..MaxDoors
  /\ rooms \in MinRooms..MaxRooms
  /\ plain_links \in SeqsUpTo(CanonicalLinks(doors, rooms), MaxLinks)
  /\ links = <<>>
  /\ data = <<>>
  /\ updated_outer_links = {}
  /\ pc = "template"
  /\ seed = 0
  /\ upd = NoUpdate
  /\ prop = NoCall
  /\ run = 0
  /\ written = {}
  /\ printed = None
  /\ reread = None

Init == Start /\ walks = NotMeasured
InitMeasured == Start /\ walks = ToMeasure

\* Where each step below starts.  A step is its starting condition and
\* assignments that are always possible, so the condition is what enables it.
AtNewTemplate == pc = "template"
AtNewDistMatrix == pc = "matrix"
AtSeedLink == pc = "seed" /\ seed <= Len(all_links)
AtSeedDone == pc = "seed" /\ seed > Len(all_links)
PendingWrite ==
  NextWrite(data, prop.a, prop.b, prop.length, prop.i, prop.j, prop.left)
AtPropagateWrite == pc = "propagate" /\ PendingWrite.found
AtPropagateReturn == pc = "propagate" /\ ~PendingWrite.found
AtPop == pc = "loop" /\ updated_outer_links # {}
AtFillReturn == pc = "loop" /\ updated_outer_links = {}
\* (_add_road cannot work with a length of None: a popped link whose cell
\* held None would stop the construction with a TypeError.)
AtUpdateRoom == pc = "update" /\ upd.room <= LastRoom /\ upd.dist # None
AtUpdateReturn == pc = "update" /\ upd.room > LastRoom
AtRefill == pc = "done" /\ run = 1

\* Template(rooms, doors, plain_links): __post_init__ fills self.links.
NewTemplate ==
  /\ AtNewTemplate
  /\ links' = PostInit(plain_links, 1, <<>>)
  /\ walks' = IF walks = ToMeasure
              THEN ShortestWalks(AllLinksFrom(PostInit(plain_links, 1, <<>>), 1))
              ELSE walks
  /\ pc' = "matrix"
  /\ UNCHANGED <<rooms, doors, plain_links, data, updated_outer_links, seed,
                 upd, prop, run, written, printed, reread>>

\* DistMatrix.__init__ up to the call of _fill, and the head of _fill.
NewDistMatrix ==
  /\ AtNewDistMatrix
  /\ data' = EmptyData
  /\ updated_outer_links' = {}
  /\ seed' = 1
  /\ run' = 1
  /\ pc' = "seed"
  /\ UNCHANGED <<rooms, doors, plain_links, links, upd, prop, written, walks,
                 printed, reread>>

\* _fill, first loop: one link of all_links() is passed to _add_road.
SeedLink ==
  /\ AtSeedLink
  /\ LET l == all_links[seed]
     IN AddRoad(GetNodeIndex(l[1][1], l[1][2]), GetNodeIndex(l[2][1], l[2][2]),
                1, "seed")
  /\ seed' = seed + 1
  /\ UNCHANGED <<rooms, doors, plain_links, links, upd, run, walks,
                 printed, reread>>

\* _fill: all_links() is exhausted, the while loop starts.
SeedDone ==
  /\ AtSeedDone
  /\ pc' = "loop"
  /\ UNCHANGED <<rooms, doors, plain_links, links, data, updated_outer_links,
                 seed, upd, prop, run, written, walks,
                 printed, reread>>

\* _propagate: the loops advance to the next write and perform it.
PropagateWrite ==
  /\ AtPropagateWrite
  /\ LET w == PendingWrite
     IN /\ data' = Set(data, w.i, w.j, w.dist)
        /\ updated_outer_links' = Record(updated_outer_links, w.i, w.j)
        /\ written' = written \cup {<<w.i, w.j, w.dist>>}
        /\ prop' = [prop EXCEPT !.i = w.i, !.j = w.j + 1, !.left = w.left]
  /\ UNCHANGED <<rooms, doors, plain_links, links, pc, seed, upd, run,
                 walks,
                 printed, reread>>

\* _propagate: the loops run out without a further write; _propagate and
\* the _add_road that called it return.
PropagateReturn ==
  /\ AtPropagateReturn
  /\ pc' = prop.ret
  /\ prop' = NoCall
  /\ UNCHANGED <<rooms, doors, plain_links, links, data, updated_outer_links,
                 seed, upd, run, written, walks,
                 printed, reread>>

\* _update: updated_outer_links.pop() returns an arbitrary element.
Pop ==
  /\ AtPop
  /\ \E link \in updated_outer_links :
       /\ updated_outer_links' = updated_outer_links \ {link}
       /\ upd' = [node1 |-> link[1], node2 |-> link[2],
                  dist |-> Get(data, link[1], link[2]), room |-> 1]
  /\ pc' = "update"
  /\ UNCHANGED <<rooms, doors, plain_links, links, data, seed, prop, run,
                 written, walks,
                 printed, reread>>

\* _update: one round of `for room in range(1, rooms + 1)`.
UpdateRoom ==
  /\ AtUpdateRoom
  /\ AddRoad(GetNodeIndex(upd.room, GetOuterNodeDoor(upd.node1)),
             GetNodeIndex(upd.room, GetOuterNodeDoor(upd.node2)),
             upd.dist[1], "update")
  /\ upd' = [upd EXCEPT !.room = upd.room + 1]
  /\ UNCHANGED <<rooms, doors, plain_links, links, seed, run, walks,
                 printed, reread>>

\* _update returns to the while loop of _fill.
UpdateReturn ==
  /\ AtUpdateReturn
  /\ pc' = "loop"
  /\ upd' = NoUpdate
  /\ UNCHANGED <<rooms, doors, plain_links, links, data, updated_outer_links,
                 seed, prop, run, written, walks,
                 printed, reread>>

\* _fill: `while updated_outer_links` ends, _fill returns.
FillReturn ==
  /\ AtFillReturn
  /\ pc' = "done"
  /\ UNCHANGED <<rooms, doors, plain_links, links, data, updated_outer_links,
                 seed, upd, prop, run, written, walks,
                 printed, reread>>

\* _fill is run once more on the finished matrix.
Refill ==
  /\ AtRefill
  /\ run' = 2
  /\ updated_outer_links' = {}
  /\ seed' = 1
  /\ pc' = "seed"
  /\ UNCHANGED <<rooms, doors, plain_links, links, data, upd, prop, written,
                 walks,
                 printed, reread>>

Next ==
  \/ NewTemplate
  \/ NewDistMatrix
  \/ SeedLink
  \/ SeedDone
  \/ PropagateWrite
  \/ PropagateReturn
  \/ Pop
  \/ UpdateRoom
  \/ UpdateReturn
  \/ FillReturn
  \/ Refill

Spec == Init /\ [][Next]_vars

\* The same construction, with the labyrinth's shortest walks at hand.
SpecMeasured == InitMeasured /\ [][Next]_vars

(***************************************************************************)
(* Template construction on arbitrary arguments                            *)
(***************************************************************************)

\* How far outside the ranges the arguments are taken, and how many links.
Slack == 1
MaxAnyLinks == 1

AnyNodes ==
  {NodeIndex(r, d) : r \in (MinRooms - Slack)..(MinRooms + 1 + Slack),
                     d \in (0 - Slack)..(MinDoors + Slack)}

StartAny ==
  /\ doors \in ((MinDoors - Slack)..MinDoors) \cup {LimitDoors + Slack}
  /\ rooms \in ((MinRooms - Slack)..(MinRooms + 1)) \cup {LimitRooms + Slack}
  /\ plain_links \in SeqsUpTo(AnyNodes \X AnyNodes, MaxAnyLinks)
  /\ links = <<>>
  /\ data = <<>>
  /\ updated_outer_links = {}
  /\ pc = "template"
  /\ seed = 0
  /\ upd = NoUpdate
  /\ prop = NoCall
  /\ run = 0
  /\ written = {}
  /\ printed = None
  /\ reread = None
  /\ walks = NotMeasured

\* Template(rooms, doors, plain_links) on any arguments.
SpecTemplate == StartAny /\ [][NewTemplate]_vars

(***************************************************************************)
(* Template construction on valid arguments, links in either orientation   *)
(***************************************************************************)

StartEdges ==
  /\ doors \in MinDoors..MaxDoors
  /\ rooms \in MinRooms..MaxRooms
  /\ plain_links \in SeqsUpTo(Nodes(doors, rooms) \X Nodes(doors, rooms),
                              MaxLinks)
  /\ links = <<>>
  /\ data = <<>>
  /\ updated_outer_links = {}
  /\ pc = "template"
  /\ seed = 0
  /\ upd = NoUpdate
  /\ prop = NoCall
  /\ run = 0
  /\ written = {}
  /\ printed = None
  /\ reread = None
  /\ walks = NotMeasured

\* Template(rooms, doors, plain_links) on valid arguments.
SpecEdges == StartEdges /\ [][NewTemplate]_vars

(***************************************************************************)
(* The templates of src/test.py                                            *)
(***************************************************************************)

\* Bounds of the templates built by hard_unsolvable_test_links_gen.
UnsolvableMaxDoors == 4
UnsolvableMaxRooms == 2

\* Nothing is built yet.
Unbuilt ==
  /\ links = <<>>
  /\ data = <<>>
  /\ updated_outer_links = {}
  /\ pc = "template"
  /\ seed = 0
  /\ upd = NoUpdate
  /\ prop = NoCall
  /\ run = 0
  /\ written = {}
  /\ printed = None
  /\ reread = None
  /\ walks = NotMeasured

\* hard_test_links_gen(rooms, doors): everything it yields, in order.
hard_test_links_gen(R, D) ==
  <<(<<NodeIndex(0, 0), NodeIndex(1, 0)>>)>>
  \o [k \in 1..(D - 1) |-> <<NodeIndex(1, k - 1), NodeIndex(0, k)>>]
  \o [k \in 1..(R - 1) |-> <<NodeIndex(0, D - 2), NodeIndex(k + 1, 0)>>]

\* Variant: the first loop is `range(doors - 1)` and reaches the last door.
hard_unsolvable_all_doors(R, D) ==
  [k \in 1..(D - 1) |-> <<NodeIndex(0, k - 1), NodeIndex(0, k)>>]
  \o [k \in 1..R |-> <<NodeIndex(k, D - 2), NodeIndex(k, D - 1)>>]
  \o [k \in 1..R |-> <<NodeIndex(0, Shr1(D - 1)), NodeIndex(k, Shr1(D - 1))>>]

\* hard_unsolvable_test_links_gen(rooms, doors): everything it yields.
hard_unsolvable_test_links_gen(R, D) ==
  [k \in 1..(D - 2) |-> <<NodeIndex(0, k - 1), NodeIndex(0, k)>>]
  \o [k \in 1..R |-> <<NodeIndex(k, D - 2), NodeIndex(k, D - 1)>>]
  \o [k \in 1..R |-> <<NodeIndex(0, Shr1(D - 1)), NodeIndex(k, Shr1(D - 1))>>]

\* get_hard_unsolvable_test(rooms, doors)
StartUnsolvable ==
  /\ doors \in MinDoors..UnsolvableMaxDoors
  /\ rooms \in MinRooms..UnsolvableMaxRooms
  /\ plain_links = hard_unsolvable_test_links_gen(rooms, doors)
  /\ Unbuilt

SpecUnsolvable == StartUnsolvable /\ [][Next]_vars

\* get_hard_test(2, 4)
StartHard ==
  /\ doors = 4
  /\ rooms = 2
  /\ plain_links = hard_test_links_gen(rooms, doors)
  /\ Unbuilt

SpecHard == StartHard /\ [][Next]_vars

(***************************************************************************)
(* Templates whose links all join two distinct outer doors                 *)
(***************************************************************************)

\* Bounds of these templates.
OuterMaxDoors == 4
OuterMaxRooms == 3
OuterMaxLinks == 2

\* The links between two distinct outer doors, in either orientation.
OuterLinks(D) == {l \in Nodes(D, 0) \X Nodes(D, 0) : l[1] # l[2]}

StartOuter ==
  /\ doors \in MinDoors..OuterMaxDoors
  /\ rooms \in MinRooms..OuterMaxRooms
  /\ plain_links \in SeqsUpTo(OuterLinks(doors), OuterMaxLinks)
  /\ Unbuilt

SpecOuter == StartOuter /\ [][Next]_vars

(***************************************************************************)
(* The textual format of a template: timus_repr of src/template.py and of  *)
(* src/main.py writes it, from_input of src/main.py reads it.  A text is a *)
(* sequence of characters, each a string of length 1.                      *)
(***************************************************************************)

\* Bounds of the templates that are written as text.
TextMaxDoors == 11
TextMaxRooms == 1
TextMaxLinks == 2

Newline == "\n"
Digits == <<"0", "1", "2", "3", "4", "5", "6", "7", "8", "9">>

\* f'{n}' for an int n
RECURSIVE Str(_)
Str(n) ==
  IF n < 0 THEN <<"-">> \o Str(0 - n)
  ELSE IF n < 10 THEN <<Digits[n + 1]>>
  ELSE Str(n \div 10) \o <<Digits[(n % 10) + 1]>>

\* '\n'.join(lines)
RECURSIVE Join(_)
Join(lines) ==
  IF lines = <<>> THEN <<>>
  ELSE IF Len(lines) = 1 THEN lines[1]
  ELSE lines[1] \o <<Newline>> \o Join(Tail(lines))

\* Template.timus_links_repr (timus_link_repr in src/main.py)
timus_links_repr(plain_link) ==
  Str(plain_link[1][1]) \o <<".">> \o Str(plain_link[1][2])
  \o <<" ", "-", " ">>
  \o Str(plain_link[2][1]) \o <<".">> \o Str(plain_link[2][2])

\* Template.timus_repr_gen of src/main.py: f'{self.doors} {self.rooms}'
main_timus_repr_gen(R, D, al) ==
  <<Str(D) \o <<" ">> \o Str(R), Str(Len(al))>>
  \o [k \in 1..Len(al) |-> timus_links_repr(al[k])]

\* Template.timus_repr_gen of src/template.py: f'{self.rooms} {self.doors}'
timus_repr_gen(R, D, al) ==
  <<Str(R) \o <<" ">> \o Str(D), Str(Len(al))>>
  \o [k \in 1..Len(al) |-> timus_links_repr(al[k])]

\* s.split(sep) for a non-empty sep: s is what is left to scan, cur the
\* piece that is being read.
RECURSIVE Split(_, _, _)
Split(s, sep, cur) ==
  IF s = <<>> THEN <<cur>>
  ELSE IF Len(s) >= Len(sep) /\ SubSeq(s, 1, Len(sep)) = sep
  THEN <<cur>> \o Split(SubSeq(s, Len(sep) + 1, Len(s)), sep, <<>>)
  ELSE Split(Tail(s), sep, Append(cur, Head(s)))

\* s.split() on a line whose only blanks are spaces
SplitBlank(s) ==
  LET pieces == Split(s, <<" ">>, <<>>)
      Filled(p) == p # <<>>
  IN SelectSeq(pieces, Filled)

\* int(s) accepts s: an optional sign, then digits only.
IsDigits(s) ==
  s # <<>> /\ \A k \in 1..Len(s) : \E v \in 0..9 : Digits[v + 1] = s[k]
IsInt(s) ==
  IF s # <<>> /\ Head(s) \in {"-", "+"} THEN IsDigits(Tail(s)) ELSE IsDigits(s)

\* int(s) when it accepts s
RECURSIVE Value(_)
Value(s) ==
  IF s = <<>> THEN 0
  ELSE 10 * Value(SubSeq(s, 1, Len(s) - 1))
       + (CHOOSE v \in 0..9 : Digits[v + 1] = s[Len(s)])
ParseInt(s) ==
  IF Head(s) = "-" THEN 0 - Value(Tail(s))
  ELSE IF Head(s) = "+" THEN Value(Tail(s))
  ELSE Value(s)

\* NodeIndex.from_str(s): `room, door = map(int, s.split('.'))`
FromStrAccepts(s) ==
  LET p == Split(s, <<".">>, <<>>)
  IN Len(p) = 2 /\ IsInt(p[1]) /\ IsInt(p[2])
from_str(s) ==
  LET p == Split(s, <<".">>, <<>>)
  IN NodeIndex(ParseInt(p[1]), ParseInt(p[2]))

\* One round of links_from_input on the line that input() returned.
LinkLineAccepted(line) ==
  LET p == Split(line, <<" ", "-", " ">>, <<>>)
  IN Len(p) = 2 /\ FromStrAccepts(p[1]) /\ FromStrAccepts(p[2])
LinkOfLine(line) ==
  LET p == Split(line, <<" ", "-", " ">>, <<>>)
  IN <<from_str(p[1]), from_str(p[2])>>

\* What a call ends with when it raises.
Raised(error) == [raised |-> error]

\* Template.from_input() on a standard input that holds the text chars:
\* the k-th call of input() returns the k-th line.
from_input(chars) ==
  LET lines == Split(chars, <<Newline>>, <<>>)
      head == SplitBlank(lines[1])
  IN IF chars = <<>> THEN Raised("EOFError")
     ELSE IF Len(head) # 2 \/ ~IsInt(head[1]) \/ ~IsInt(head[2])
     THEN Raised("ValueError")
     ELSE IF Len(lines) < 2 THEN Raised("EOFError")
     ELSE IF ~IsInt(lines[2]) THEN Raised("ValueError")
     ELSE LET total_links == ParseInt(lines[2])
              bad == {k \in 1..total_links :
                        k + 2 > Len(lines) \/ ~LinkLineAccepted(lines[k + 2])}
          IN IF bad # {}
             THEN LET k == CHOOSE b \in bad : \A c \in bad : b <= c
                  IN IF k + 2 > Len(lines) THEN Raised("EOFError")
                     ELSE Raised("ValueError")
             ELSE [doors |-> ParseInt(head[1]),
                   rooms |-> ParseInt(head[2]),
                   links |-> PostInit([k \in 1..total_links |->
                                         LinkOfLine(lines[k + 2])], 1, <<>>)]

\* The nodes of the first and the last door of every room.
TextNodes(D, R) == {NodeIndex(r, d) : r \in 0..R, d \in {0, D - 1}}

StartText ==
  /\ doors \in MinDoors..TextMaxDoors
  /\ rooms \in MinRooms..TextMaxRooms
  /\ plain_links \in SeqsUpTo(TextNodes(doors, rooms) \X TextNodes(doors, rooms),
                              TextMaxLinks)
  /\ Unbuilt

\* template.timus_repr() of a Template of src/template.py, as get_hard_test
\* and get_hard_unsolvable_test print it.
TimusRepr ==
  /\ pc = "matrix"
  /\ printed = None
  /\ printed' = Join(timus_repr_gen(rooms, doors, all_links))
  /\ UNCHANGED <<rooms, doors, plain_links, links, data, updated_outer_links,
                 pc, seed, upd, prop, run, written, walks, reread>>

\* template.timus_repr() of a Template of src/main.py.
MainTimusRepr ==
  /\ pc = "matrix"
  /\ printed = None
  /\ printed' = Join(main_timus_repr_gen(rooms, doors, all_links))
  /\ UNCHANGED <<rooms, doors, plain_links, links, data, updated_outer_links,
                 pc, seed, upd, prop, run, written, walks, reread>>

\* Template.from_input() of src/main.py reads the text.
FromInput ==
  /\ printed # None
  /\ reread = None
  /\ reread' = from_input(printed)
  /\ UNCHANGED <<rooms, doors, plain_links, links, data, updated_outer_links,
                 pc, seed, upd, prop, run, written, walks, printed>>

NextText ==
  \/ NewTemplate
  \/ TimusRepr
  \/ MainTimusRepr
  \/ FromInput

SpecText == StartText /\ [][NextText]_vars

(***************************************************************************)
(* Properties                                                              *)
(***************************************************************************)

Done == pc = "done"

\* C1: once construction has finished, get(a, b) of two distinct nodes is
\* the length of the shortest path between them in the infinitely nested
\* labyrinth, and it is None exactly when no path exists at any depth.
C1_Completeness ==
  Done =>
    \A i \in AllNodes : \A j \in AllNodes \ {i} :
      Get(data, i, j) = ShortestPath(walks, i, j)

\* C1 witness: a finished matrix with inner rooms that holds a distance of
\* 3 or more between two nodes and leaves another pair of nodes unknown.
C1_Witness ==
  /\ Done
  /\ rooms >= 1
  /\ \E i \in AllNodes : \E j \in AllNodes \ {i} :
       Get(data, i, j) # None /\ Get(data, i, j)[1] >= 3
  /\ \E i \in AllNodes : \E j \in AllNodes \ {i} : Get(data, i, j) = None

Allocated == pc \notin {"template", "matrix"}

\* C2: in every state of the construction, a cell of two distinct nodes
\* that holds k is witnessed by a walk of length exactly k between the two
\* nodes in the nested labyrinth.
C2_Soundness ==
  Allocated =>
    \A i \in AllNodes : \A j \in AllNodes \ {i} :
      Get(data, i, j) # None =>
        WalkOfLength(walks, i, j, Get(data, i, j)[1])

\* C2 witness: in the middle of a _propagate, a cell holds a value that is
\* a walk length but not yet the shortest one.
C2_Witness ==
  /\ pc = "propagate"
  /\ \E i \in AllNodes : \E j \in AllNodes \ {i} :
       /\ Get(data, i, j) # None
       /\ Get(data, i, j)[1] > ShortestPath(walks, i, j)[1]

\* Cells of the list that hold None, and the sum of the other cells.
UnknownCells == Cardinality({k \in DOMAIN data : data[k] = None})
RECURSIVE SumFrom(_, _)
SumFrom(d, k) ==
  IF k > Len(d) THEN 0
  ELSE (IF d[k] = None THEN 0 ELSE d[k][1]) + SumFrom(d, k + 1)

\* What is left of the construction, most significant first: runs of _fill
\* to start, the template to build, cells to fill, length to lose, links to
\* seed, updated outer links to pop, and the rest of the current call.
Variant ==
  << 2 - run,
     IF pc = "template" THEN 1 ELSE 0,
     UnknownCells,
     SumFrom(data, 1),
     IF pc = "seed" \/ (pc = "propagate" /\ prop.ret = "seed")
     THEN Len(all_links) + 2 - seed ELSE 0,
     Cardinality(updated_outer_links),
     CASE pc = "propagate" /\ prop.ret = "update"
            -> 2 * (rooms + 2 - upd.room) + 1
       [] pc = "propagate" -> 1
       [] pc = "update" -> 2 * (rooms + 2 - upd.room)
       [] pc = "loop" -> 1
       [] OTHER -> 0 >>

\* Lexicographic order on tuples of naturals of the same length.
LexLess(s, t) ==
  \E k \in 1..Len(s) : s[k] < t[k] /\ \A m \in 1..(k - 1) : s[m] = t[m]

\* Some step of the construction can be taken.
CanStep ==
  \/ AtNewTemplate \/ AtNewDistMatrix \/ AtSeedLink \/ AtSeedDone
  \/ AtPropagateWrite \/ AtPropagateReturn \/ AtPop \/ AtFillReturn
  \/ AtUpdateRoom \/ AtUpdateReturn \/ AtRefill

\* C3: construction halts.  Every step of the construction strictly lowers
\* Variant, a tuple of naturals in lexicographic order (each write fills a
\* cell or shortens a distance, each pop shrinks the set), so no run is
\* infinite whatever each pop returns; and the construction is never stuck
\* before _fill has returned with the set of updated outer links empty.
C3_Termination ==
  /\ [](\A v \in {Variant} : \A k \in 1..Len(v) : v[k] >= 0)
  /\ []((Done /\ updated_outer_links = {}) \/ CanStep)
  /\ [][\E after \in {Variant'}, before \in {Variant} :
          LexLess(after, before)]_vars

\* C3 witness: a finished construction in which a popped outer link was
\* copied into an inner room.
C3_Witness ==
  /\ Done
  /\ \E w \in written : ~IsOuterNode(w[1]) /\ ~IsOuterNode(w[2]) /\ w[3] > 1

\* C4: the finished matrix is the one _fill produces with the links seeded
\* in sorted order and the least pair popped each time: the order of the
\* links and the choice of the pops do not influence any cell.
C4_Confluence == Done => data = FillSorted(all_links).data

\* C4 witness: a finished matrix with inner rooms in which two different
\* pairs of outer doors are connected (so that a pop had a choice) and a
\* cell was improved after its first value.
C4_Witness ==
  /\ Done
  /\ rooms >= 1
  /\ \E a \in 0..(doors - 1) : \E b \in 0..(doors - 1) \ {a} :
     \E c \in 0..(doors - 1) \ {a, b} :
       Get(data, a, b) # None /\ Get(data, b, c) # None
  /\ \E v \in written : \E w \in written :
       {v[1], v[2]} = {w[1], w[2]} /\ w[3] < v[3]

\* C5 as stated: for every pair of distinct outer doors with finite distance
\* d, the same doors of every inner room are at distance exactly d.
C5_SelfSimilarExactly ==
  Done =>
    \A a \in 0..(doors - 1) : \A b \in 0..(doors - 1) \ {a} :
      Get(data, a, b) # None =>
        \A r \in 1..rooms :
          Get(data, GetNodeIndex(r, a), GetNodeIndex(r, b)) = Get(data, a, b)

\* C5 amended: for every pair of distinct outer doors with finite distance d,
\* the same doors of every inner room are at a known distance of at most d.
C5_SelfSimilarAtMost ==
  Done =>
    \A a \in 0..(doors - 1) : \A b \in 0..(doors - 1) \ {a} :
      Get(data, a, b) # None =>
        \A r \in 1..rooms :
          LET inner == Get(data, GetNodeIndex(r, a), GetNodeIndex(r, b))
          IN inner # None /\ inner[1] <= Get(data, a, b)[1]

\* C5 witness: a finished matrix in which two doors of an inner room are
\* strictly closer than the same two outer doors.
C5_Witness ==
  /\ Done
  /\ \E a \in 0..(doors - 1) : \E b \in 0..(doors - 1) \ {a} : \E r \in 1..rooms :
       /\ Get(data, a, b) # None
       /\ Get(data, GetNodeIndex(r, a), GetNodeIndex(r, b)) # None
       /\ Get(data, GetNodeIndex(r, a), GetNodeIndex(r, b))[1]
            < Get(data, a, b)[1]

\* C6: once construction has finished, get(a, c) <= get(a, b) + get(b, c)
\* for all nodes a, b, c whose pairwise distances are all known.
C6_Triangle ==
  Done =>
    \A a \in AllNodes : \A b \in AllNodes : \A c \in AllNodes :
      (Get(data, a, b) # None /\ Get(data, b, c) # None
       /\ Get(data, a, c) # None)
      => Get(data, a, c)[1] <= Get(data, a, b)[1] + Get(data, b, c)[1]

\* C6 witness: a finished matrix with three distinct nodes at known
\* distances, one of them longer than 1.
C6_Witness ==
  /\ Done
  /\ \E a \in AllNodes : \E b \in AllNodes \ {a} : \E c \in AllNodes \ {a, b} :
       /\ Get(data, a, b) # None /\ Get(data, b, c) # None
       /\ Get(data, a, c) # None
       /\ Get(data, a, c)[1] = Get(data, a, b)[1] + Get(data, b, c)[1]

\* C7: at every point during and after construction the value read for
\* (a, b) is the value read for (b, a), and writing (a, b) is writing (b, a).
C7_Symmetry ==
  Allocated =>
    \A a \in AllNodes : \A b \in AllNodes :
      /\ Get(data, a, b) = Get(data, b, a)
      /\ a # b => Set(data, a, b, 1) = Set(data, b, a, 1)

\* C7 witness: a write was made with the larger node index first, and its
\* value is in the matrix.
C7_Witness ==
  /\ Allocated
  /\ \E w \in written : w[1] > w[2] /\ Get(data, w[2], w[1]) = Some(w[3])

\* C8: a cell that holds a value is never reset to None and never grows, and
\* every step that writes (the _set of _add_road, a _set of _propagate)
\* changes a cell to a value strictly smaller than the one it held.
C8_Monotonic ==
  [][/\ \A k \in DOMAIN data :
          data[k] # None => data'[k] # None /\ data'[k][1] <= data[k][1]
     /\ pc' = "propagate" =>
          \E k \in DOMAIN data :
            /\ data'[k] # data[k]
            /\ data'[k] # None
            /\ data[k] # None => data'[k][1] < data[k][1]]_vars

\* C8 witness: a cell has been written twice, with different values.
C8_Witness ==
  \E v \in written : \E w \in written :
    /\ {v[1], v[2]} = {w[1], w[2]}
    /\ w[3] < v[3]
    /\ Get(data, w[1], w[2]) = Some(w[3])

\* C9: a second run of _fill on the finished matrix changes no cell and
\* leaves the set of updated outer links empty.
C9_Idempotent ==
  [][run' = 2 => data' = data /\ updated_outer_links' = {}]_vars

\* C9 witness: the second run has finished on a matrix whose inner rooms
\* received distances from the outer doors.
C9_Witness ==
  /\ Done
  /\ run = 2
  /\ \E w \in written : ~IsOuterNode(w[1]) /\ ~IsOuterNode(w[2]) /\ w[3] > 1

\* The arguments the problem statement allows.
ValidArguments ==
  /\ doors \in MinDoors..LimitDoors
  /\ rooms \in MinRooms..LimitRooms
  /\ \A k \in 1..Len(plain_links) : \A e \in 1..2 :
       /\ plain_links[k][e][1] \in 0..rooms
       /\ plain_links[k][e][2] \in 0..(doors - 1)

\* C10: a Template is produced only from a door count in [2, 20], a room
\* count in [0, 5] and links whose room indices are in [0, R] and door
\* indices in [0, D); any other construction ends in an error.
C10_InvalidRejected == pc = "matrix" => ValidArguments

\* A link with its smaller node first, and how often x occurs in a sequence.
Canonical(l) == IF NodeLess(l[2], l[1]) THEN <<l[2], l[1]>> ELSE l
Count(sq, x) == Cardinality({k \in 1..Len(sq) : sq[k] = x})

\* C11: all_links() yields each link of the list given to the Template
\* exactly once, smaller node first, and nothing else: every pair of nodes
\* is yielded as often as the list holds it (in either orientation) when its
\* first node is not the larger one, and never otherwise.
C11_EachEdgeOnce ==
  pc = "matrix" =>
    \A e \in Nodes(doors, rooms) \X Nodes(doors, rooms) :
      Count(all_links, e) =
        IF NodeLess(e[2], e[1]) THEN 0
        ELSE Cardinality({k \in 1..Len(plain_links) :
                           Canonical(plain_links[k]) = e})

\* C12: on the template of hard_unsolvable_test_links_gen, the distance
\* between outer door 0 and the last outer door is None in every state of
\* the construction and after it, for every number of inner rooms.
C12_Unsolvable == Allocated => Get(data, 0, doors - 1) = None

\* C12 witness: the construction has finished on a template with inner
\* rooms in which every other node is at a known distance from outer door 0.
C12_Witness ==
  /\ Done
  /\ rooms >= 1
  /\ doors >= 3
  /\ \A j \in AllNodes \ {doors - 1} : Get(data, 0, j) # None

\* C13: on the template of hard_test_links_gen(2, 4), every finished
\* construction, whatever the pops returned, holds the same finite distance
\* between outer door 0 and outer door 3: 6.
C13_HardTest == Done => Get(data, 0, doors - 1) = Some(6)

\* C13 witness: the construction has finished with a known distance between
\* the two doors, after several pairs of outer doors were updated.
C13_Witness ==
  /\ Done
  /\ run = 1
  /\ Get(data, 0, doors - 1) # None
  /\ \E v \in written : \E w \in written :
       /\ IsOuterNode(v[1]) /\ IsOuterNode(v[2])
       /\ IsOuterNode(w[1]) /\ IsOuterNode(w[2])
       /\ {v[1], v[2]} # {w[1], w[2]}

\* C14: when the only link of the template joins two distinct outer doors a
\* and b, the finished matrix holds exactly 1 for (0, a), (0, b) and exactly
\* 1 for (r, a), (r, b) in every inner room r.
C14_SingleLink ==
  (Done /\ Len(plain_links) = 1) =>
    LET a == plain_links[1][1][2]
        b == plain_links[1][2][2]
    IN /\ Get(data, GetNodeIndex(0, a), GetNodeIndex(0, b)) = Some(1)
       /\ \A r \in 1..rooms :
            Get(data, GetNodeIndex(r, a), GetNodeIndex(r, b)) = Some(1)

\* C14 witness: the construction has finished on a single link, given with
\* its larger door first, of a template with several inner rooms.
C14_Witness ==
  /\ Done
  /\ rooms >= 2
  /\ Len(plain_links) = 1
  /\ plain_links[1][1][2] > plain_links[1][2][2]
  /\ \E w \in written : ~IsOuterNode(w[1]) /\ ~IsOuterNode(w[2])

\* C15: at every point of the construction the set of updated outer links
\* holds no unordered pair of outer doors more than once, and so at most
\* D * (D - 1) / 2 entries.
C15_FrontierBound ==
  /\ \A p \in updated_outer_links : \A q \in updated_outer_links :
       {p[1], p[2]} = {q[1], q[2]} => p = q
  /\ 2 * Cardinality(updated_outer_links) <= doors * (doors - 1)

\* C16: at every point of the construction every entry of the set of
\* updated outer links is a pair of nodes of the outer room (node indices
\* below D): a pair with a node of an inner room is never in the set.
C16_FrontierOuter ==
  \A p \in updated_outer_links :
    /\ p[1] \in 0..(doors - 1)
    /\ p[2] \in 0..(doors - 1)

\* C16 witness: cells of inner nodes have been written, by _add_road and by
\* _propagate, and the set holds updated outer links.
C16_Witness ==
  /\ updated_outer_links # {}
  /\ \E w \in written : ~IsOuterNode(w[1]) /\ ~IsOuterNode(w[2]) /\ w[3] = 1
  /\ \E w \in written : (~IsOuterNode(w[1]) \/ ~IsOuterNode(w[2])) /\ w[3] > 1

\* min(W[i,j], W[i,a] + length + W[b,j], W[i,b] + length + W[a,j]) on the
\* list W, where None counts as infinity and W[x,x] = 0.
Relaxed(W, a, b, length, i, j) ==
  Min(Get(W, i, j),
      Min(Plus(Plus(Get(W, i, a), Some(length)), Get(W, b, j)),
          Plus(Plus(Get(W, i, b), Some(length)), Get(W, a, j))))

\* C17: when _propagate(a, b, length), called right after the cell (a, b)
\* was set to length, is about to return, every pair (i, j) holds
\* min(W[i,j], W[i,a] + length + W[b,j], W[i,b] + length + W[a,j]) for the
\* values W the list held when the call began.
C17_Relaxation ==
  AtPropagateReturn =>
    \A i \in AllNodes : \A j \in AllNodes \ {i} :
      Get(data, i, j) =
        Relaxed(prop.before, prop.a, prop.b, prop.length, i, j)

\* C17 witness: a _propagate is about to return after it has improved a
\* cell (i, a) or (b, j) that its loops read, and a cell of two other nodes.
C17_Witness ==
  /\ AtPropagateReturn
  /\ \E i \in AllNodes \ {prop.a, prop.b} :
       \/ Get(data, i, prop.a) # Get(prop.before, i, prop.a)
       \/ Get(data, prop.b, i) # Get(prop.before, prop.b, i)
  /\ \E i \in AllNodes \ {prop.a, prop.b} :
     \E j \in AllNodes \ {prop.a, prop.b, i} :
       Get(data, i, j) # Get(prop.before, i, j)

(***************************************************************************)
(* addRoad and propagate as the specification words them: propagate calls  *)
(* addRoad(i, j, candidate) for every candidate, and addRoad propagates    *)
(* from every cell it improves.  The loops are those of _propagate.        *)
(***************************************************************************)

\* The columns of row i, from column j on, at which addRoad(i, y, candidate)
\* improves the cell.
CandidateColumns(d, a, b, length, i, j, left) ==
  {y \in j..(total_nodes - 1) :
     /\ y # a
     /\ ~(i = a /\ y = b)
     /\ Get(d, b, y) # None
     /\ \/ Get(d, i, y) = None
        \/ Get(d, i, y)[1] > left[1] + length + Get(d, b, y)[1]}

\* The first candidate from loop position (i, j) on that improves its cell.
RECURSIVE NextCandidate(_, _, _, _, _, _, _)
NextCandidate(d, a, b, length, i, j, left) ==
  IF i >= total_nodes THEN [found |-> FALSE]
  ELSE IF left = None
  THEN IF i = b \/ Get(d, i, a) = None
       THEN NextCandidate(d, a, b, length, i + 1, 0, None)
       ELSE NextCandidate(d, a, b, length, i, 0, Get(d, i, a))
  ELSE LET cols == CandidateColumns(d, a, b, length, i, j, left)
       IN IF cols = {}
          THEN NextCandidate(d, a, b, length, i + 1, 0, None)
          ELSE LET y == CHOOSE c \in cols : \A e \in cols : c <= e
               IN [found |-> TRUE, i |-> i, j |-> y, left |-> left,
                   dist |-> left[1] + length + Get(d, b, y)[1]]

\* propagate(a, b, length) from loop position (i, j) on: the next improving
\* candidate is applied as addRoad (steps 2 to 4: set the cell, insert a pair
\* of outer nodes into the frontier, propagate from the cell), then the
\* loops go on.  The frontier is a set of unordered pairs; sets counts the
\* cells set.
RECURSIVE propagate(_, _, _, _, _, _, _)
propagate(st, a, b, length, i, j, left) ==
  LET w == NextCandidate(st.data, a, b, length, i, j, left)
  IN IF ~w.found THEN st
     ELSE propagate(
            propagate([data |-> Set(st.data, w.i, w.j, w.dist),
                       frontier |-> IF w.i < doors /\ w.j < doors
                                    THEN st.frontier \cup {{w.i, w.j}}
                                    ELSE st.frontier,
                       sets |-> st.sets + 1],
                      w.i, w.j, w.dist, 0, 0, None),
            a, b, length, w.i, w.j + 1, w.left)

\* The unordered pairs of a set of tuples (i, j).
Unordered(S) == {{p[1], p[2]} : p \in S}

\* A _propagate has been called and has not written yet.
PropagateCalled == pc = "propagate" /\ prop.left = None

\* What the running call of _propagate leaves, and what propagate leaves.
LeftByCode ==
  PropagateAll([data |-> data, links |-> updated_outer_links],
               prop.a, prop.b, prop.length, 0, 0, None)
LeftBySpec ==
  propagate([data |-> data, frontier |-> Unordered(updated_outer_links),
             sets |-> 0],
            prop.a, prop.b, prop.length, 0, 0, None)

\* C18: from every call of _propagate during the construction, the list
\* and the pairs of outer nodes in the set of updated outer links that the
\* code leaves are those that propagate leaves when every candidate goes
\* through addRoad and is propagated further.
C18_PropagateViaAddRoad ==
  PropagateCalled =>
    \A code \in {LeftByCode}, spec \in {LeftBySpec} :
      /\ code.data = spec.data
      /\ Unordered(code.links) = spec.frontier

\* C18 witness: a call of _propagate from which propagate sets some cell
\* more than once (a value set by a nested addRoad is improved later) and
\* inserts a new pair into the frontier.
C18_Witness ==
  /\ PropagateCalled
  /\ \E spec \in {LeftBySpec} :
       /\ spec.sets > Cardinality({k \in DOMAIN data : spec.data[k] # data[k]})
       /\ spec.frontier # Unordered(updated_outer_links)

\* The arguments of the _add_road that the next step calls, if it calls one.
CallsAddRoad == AtSeedLink \/ AtUpdateRoom
AddRoadArguments ==
  IF pc = "seed"
  THEN [a |-> GetNodeIndex(all_links[seed][1][1], all_links[seed][1][2]),
        b |-> GetNodeIndex(all_links[seed][2][1], all_links[seed][2][2]),
        length |-> 1]
  ELSE [a |-> GetNodeIndex(upd.room, GetOuterNodeDoor(upd.node1)),
        b |-> GetNodeIndex(upd.room, GetOuterNodeDoor(upd.node2)),
        length |-> upd.dist[1]]

\* C19: a call _add_road(a, b, length) on a cell (a, b) that holds a value
\* <= length (0 when a = b) writes no cell, inserts nothing into the set
\* of updated outer links and does not run _propagate.
C19_NoImprovementNoChange ==
  [][(/\ CallsAddRoad
      /\ \E cur \in {Get(data, AddRoadArguments.a, AddRoadArguments.b)} :
           cur # None /\ cur[1] <= AddRoadArguments.length)
     => /\ data' = data
        /\ updated_outer_links' = updated_outer_links
        /\ written' = written
        /\ pc' # "propagate"]_vars

\* C19 witness: the second run of _fill has passed all links to _add_road
\* again, among them a link from a node to itself and a link between two
\* nodes: none of these calls could improve a cell.
C19_Witness ==
  /\ run = 2
  /\ pc = "seed"
  /\ seed > Len(all_links)
  /\ \E k \in 1..Len(all_links) : all_links[k][1] = all_links[k][2]
  /\ \E k \in 1..Len(all_links) : all_links[k][1] # all_links[k][2]

\* The two door indices of the popped link, in inner room r.
InnerNode1(r) == GetNodeIndex(r, GetOuterNodeDoor(upd.node1))
InnerNode2(r) == GetNodeIndex(r, GetOuterNodeDoor(upd.node2))

\* C20: every step that writes the cell of two distinct outer nodes leaves
\* the pair in the set of updated outer links; a pair in the set stays in
\* it until the step that pops it; the pop reads the value of the outer
\* cell, and from then on _update calls _add_road for the same two doors of
\* every inner room 1..R in turn, with that value, before it returns.
C20_PushedToInnerRooms ==
  [][/\ \A w \in written' \ written :
          (w[1] < doors /\ w[2] < doors /\ w[1] # w[2])
          => <<w[1], w[2]>> \in updated_outer_links'
     /\ \A p \in updated_outer_links \ updated_outer_links' :
          /\ pc = "loop" /\ pc' = "update"
          /\ upd'.node1 = p[1] /\ upd'.node2 = p[2]
          /\ upd'.dist = Get(data, p[1], p[2])
          /\ upd'.dist # None
          /\ upd'.room = 1
     /\ (pc = "update" /\ upd.room <= rooms) =>
          /\ upd' = [upd EXCEPT !.room = upd.room + 1]
          /\ \/ /\ Get(data, InnerNode1(upd.room), InnerNode2(upd.room)) # None
                /\ Get(data, InnerNode1(upd.room), InnerNode2(upd.room))[1]
                     <= upd.dist[1]
                /\ data' = data
             \/ /\ written' \ written =
                     {<<InnerNode1(upd.room), InnerNode2(upd.room),
                        upd.dist[1]>>}
                /\ Get(data', InnerNode1(upd.room), InnerNode2(upd.room))
                     = upd.dist
     /\ (pc = "propagate" /\ prop.ret = "update") => upd' = upd
     /\ (pc = "update" /\ pc' = "loop") => upd.room = rooms + 1]_vars

\* C20 witness: _update has called _add_road for every inner room with the
\* value read at the pop of a pair that _propagate had written, and a call
\* improved the cell of an inner room to that value.
C20_Witness ==
  /\ pc = "update"
  /\ rooms >= 1
  /\ upd.room = rooms + 1
  /\ upd.dist[1] > 1
  /\ <<upd.node1, upd.node2>> \notin updated_outer_links
  /\ \E r \in 1..rooms :
       <<InnerNode1(r), InnerNode2(r), upd.dist[1]>> \in written

\* The lines of the input format for a template of D doors and R inner
\* rooms with the edges al: "D R", the number of edges, one edge per line.
InputFormat(D, R, al) ==
  <<Str(D) \o <<" ">> \o Str(R), Str(Len(al))>>
  \o [k \in 1..Len(al) |->
        Str(al[k][1][1]) \o <<".">> \o Str(al[k][1][2]) \o <<" ", "-", " ">>
        \o Str(al[k][2][1]) \o <<".">> \o Str(al[k][2][2])]

\* C21: the text that timus_repr makes of a template has the input format
\* (first line the door count, then the inner-room count; second line the
\* number of edges; then one line "r1.d1 - r2.d2" per edge), and from_input
\* builds from that text a template with the same doors, rooms and edges.
C21_TextRoundTrip ==
  /\ printed # None =>
       Split(printed, <<Newline>>, <<>>) = InputFormat(doors, rooms, all_links)
  /\ reread # None =>
       /\ DOMAIN reread = {"doors", "rooms", "links"}
       /\ reread.doors = doors
       /\ reread.rooms = rooms
       /\ \A e \in Nodes(doors, rooms) \X Nodes(doors, rooms) :
            Count(AllLinksFrom(reread.links, 1), e) = Count(all_links, e)

\* No _add_road is running: the construction is between two calls that
\* _fill or _update make, or past the last one.
BetweenCalls == pc \in {"seed", "update", "loop", "done"}

\* C22: each time a call of _add_road from _fill or from _update has
\* returned, and so between any two such calls, the matrix is transitively
\* closed: for all nodes i, k, j with known distances (i, k) and (k, j) the
\* distance (i, j) is known and W[i,j] <= W[i,k] + W[k,j].  (Stated for
\* three distinct nodes: with two equal nodes it is W[x,x] = 0.)
C22_ClosedBetweenCalls ==
  BetweenCalls =>
    \A i \in AllNodes : \A k \in AllNodes \ {i} :
      \A ik \in {Get(data, i, k)} :
        ik # None =>
          \A j \in AllNodes \ {i, k} :
            \A kj \in {Get(data, k, j)}, ij \in {Get(data, i, j)} :
              kj # None => ij # None /\ ij[1] <= ik[1] + kj[1]

\* C22 witness: a call of _add_road has returned in the first run, more
\* updated outer links wait to be popped, the matrix is not the final one,
\* and it holds a distance of 3 or more that _propagate put together.
C22_Witness ==
  /\ pc \in {"seed", "update"}
  /\ run = 1
  /\ updated_outer_links # {}
  /\ \E i \in AllNodes : \E k \in AllNodes \ {i} : \E j \in AllNodes \ {i, k} :
       /\ Get(data, i, k) # None /\ Get(data, k, j) # None
       /\ Get(data, i, j) # None
       /\ Get(data, i, j)[1] >= 3
       /\ Get(data, i, j)[1] = Get(data, i, k)[1] + Get(data, k, j)[1]
  /\ data # FillSorted(all_links).data

\* C23: when _fill has returned, the set of updated outer links is empty and
\* for every pair of distinct outer doors a, b with a known distance d and
\* every inner room r in 1..R, the distance between (r, a) and (r, b) is
\* known and <= d.  So it is already each time the while loop of _fill tests
\* the set, for the pairs that the set does not hold in either order.
C23_FixedPoint ==
  /\ pc = "done" => updated_outer_links = {}
  /\ pc \in {"loop", "done"} =>
       \A a \in 0..(doors - 1) : \A b \in 0..(doors - 1) \ {a} :
         (/\ Get(data, GetNodeIndex(0, a), GetNodeIndex(0, b)) # None
          /\ <<GetNodeIndex(0, a), GetNodeIndex(0, b)>> \notin updated_outer_links
          /\ <<GetNodeIndex(0, b), GetNodeIndex(0, a)>> \notin updated_outer_links)
         => \A r \in 1..rooms :
              \A inner \in {Get(data, GetNodeIndex(r, a), GetNodeIndex(r, b))} :
                /\ inner # None
                /\ inner[1] <= Get(data, GetNodeIndex(0, a), GetNodeIndex(0, b))[1]

\* C23 witness: _fill has returned on a template with inner rooms; two outer
\* doors are at a distance of 2 or more, which _update wrote into an inner
\* room, and the same doors of an inner room are at that distance or less.
C23_Witness ==
  /\ pc = "done"
  /\ run = 1
  /\ rooms >= 1
  /\ \E a \in 0..(doors - 1) : \E b \in 0..(doors - 1) \ {a} : \E r \in 1..rooms :
       /\ Get(data, a, b) # None
       /\ Get(data, a, b)[1] >= 2
       /\ <<GetNodeIndex(r, a), GetNodeIndex(r, b), Get(data, a, b)[1]>>
            \in written
       /\ Get(data, GetNodeIndex(r, a), GetNodeIndex(r, b)) = Get(data, a, b)

(***************************************************************************)
(* DistMatrix of src/main.py: the same _fill, _update, _add_road and       *)
(* _propagate on a full table of total_nodes rows and columns with the     *)
(* diagonal set to 0.  A table is a function from row to column to cell.   *)
(***************************************************************************)

\* The cell of the table that _get and _set of src/main.py use: row, column.
MainLocation(node1_index, node2_index) ==
  IF node1_index < node2_index THEN <<node1_index, node2_index>>
  ELSE <<node2_index, node1_index>>

\* DistMatrix._get of src/main.py
MainGet(t, node1_index, node2_index) ==
  IF node1_index < node2_index THEN t[node1_index][node2_index]
  ELSE t[node2_index][node1_index]

\* DistMatrix._set of src/main.py
MainSet(t, node1_index, node2_index, dist) ==
  IF node1_index < node2_index
  THEN [t EXCEPT ![node1_index][node2_index] = Some(dist)]
  ELSE [t EXCEPT ![node2_index][node1_index] = Some(dist)]

\* DistMatrix._get_empty_matrix of src/main.py
MainEmptyMatrix ==
  [i \in AllNodes |-> [j \in AllNodes |-> IF i = j THEN Some(0) ELSE None]]

\* _add_road of src/main.py up to its call of _propagate, on the table t
\* and the set u.
MainAddRoad(t, u, a, b, length) ==
  IF ~Improves(MainGet(t, a, b), length)
  THEN [table |-> t, links |-> u, propagates |-> FALSE]
  ELSE [table |-> MainSet(t, a, b, length), links |-> Record(u, a, b),
        propagates |-> TRUE]

\* The inner loop of _propagate of src/main.py in row i, from column j on:
\* the columns at which the iteration reaches self._set.
MainWritingColumns(t, a, b, length, i, j, left) ==
  {y \in j..(total_nodes - 1) :
     /\ ~(y = a \/ (i = a /\ y = b))
     /\ MainGet(t, b, y) # None
     /\ Improves(MainGet(t, i, y),
                 PathLength(left[1], length, MainGet(t, b, y)[1]))}

\* _propagate of src/main.py from loop position (i, j) on the table t: the
\* first iteration that reaches self._set.
RECURSIVE MainNextWrite(_, _, _, _, _, _, _)
MainNextWrite(t, a, b, length, i, j, left) ==
  IF i >= total_nodes THEN [found |-> FALSE]
  ELSE IF left = None
  THEN IF i = b \/ MainGet(t, i, a) = None
       THEN MainNextWrite(t, a, b, length, i + 1, 0, None)
       ELSE MainNextWrite(t, a, b, length, i, 0, MainGet(t, i, a))
  ELSE LET cols == MainWritingColumns(t, a, b, length, i, j, left)
       IN IF cols = {}
          THEN MainNextWrite(t, a, b, length, i + 1, 0, None)
          ELSE LET y == CHOOSE c \in cols : \A e \in cols : c <= e
               IN [found |-> TRUE, i |-> i, j |-> y, left |-> left,
                   dist |-> PathLength(left[1], length, MainGet(t, b, y)[1])]

\* The table of src/main.py that holds, for every pair of nodes, what the
\* list d of src/dist_matrix.py holds for it.  (The comparison changes
\* nothing: it makes TLC compute the table once.)
Table(d) ==
  LET t == [i \in AllNodes |-> [j \in AllNodes |->
              IF i = j THEN Some(0)
              ELSE IF i < j THEN d[GetLocation(i, j) + 1]
              ELSE None]]
  IN IF t = MainEmptyMatrix THEN MainEmptyMatrix ELSE t

\* The pairs of distinct nodes, smaller node first.
NodePairs == {p \in AllNodes \X AllNodes : p[1] < p[2]}

\* Both implementations read the same value for every pair of nodes.
SameReads ==
  \A t \in {Table(data)} :
    \A i \in AllNodes : \A j \in AllNodes :
      MainGet(t, i, j) = Get(data, i, j)

\* In neither implementation do two pairs of distinct nodes share a cell,
\* and every pair has its cell in the list d.
SlotsDistinct(d) ==
  \A p \in NodePairs :
    /\ GetLocation(p[1], p[2]) \in 0..(Len(d) - 1)
    /\ \A q \in NodePairs \ {p} :
         /\ GetLocation(p[1], p[2]) # GetLocation(q[1], q[2])
         /\ MainLocation(p[1], p[2]) # MainLocation(q[1], q[2])

\* The step that src/dist_matrix.py takes on its list is the step that
\* src/main.py takes, at the same position, on the table that holds the
\* same values.
SameStep ==
  /\ pc = "matrix" => Table(data') = MainEmptyMatrix /\ SlotsDistinct(data')
  /\ CallsAddRoad =>
       \A m \in {MainAddRoad(Table(data), updated_outer_links,
                             AddRoadArguments.a, AddRoadArguments.b,
                             AddRoadArguments.length)} :
         /\ Table(data') = m.table
         /\ updated_outer_links' = m.links
         /\ (pc' = "propagate") = m.propagates
  /\ pc = "propagate" =>
       \A t \in {Table(data)} :
       \A w \in {MainNextWrite(t, prop.a, prop.b, prop.length,
                               prop.i, prop.j, prop.left)} :
         IF w.found
         THEN /\ Table(data') = MainSet(t, w.i, w.j, w.dist)
              /\ updated_outer_links' = Record(updated_outer_links, w.i, w.j)
              /\ pc' = "propagate"
              /\ prop'.i = w.i /\ prop'.j = w.j + 1 /\ prop'.left = w.left
         ELSE /\ data' = data
              /\ updated_outer_links' = updated_outer_links
              /\ pc' = prop.ret
  /\ (pc = "loop" /\ pc' = "update") =>
       upd'.dist = MainGet(Table(data), upd'.node1, upd'.node2)

\* C24: the DistMatrix of src/main.py and the DistMatrix of
\* src/dist_matrix.py agree.  Whenever the list and the table hold the same
\* value for every pair of nodes, _get returns the same for all a, b, and
\* the next operation (the empty matrix, a call of _add_road, a write or the
\* return of _propagate, the read of a pop) leaves them holding the same
\* values, the same set of updated outer links and the same position; and
\* in the list and in the table that are created, no two pairs of distinct
\* nodes share a cell.
C24_ImplementationsAgree ==
  /\ [](Allocated => SameReads)
  /\ [][SameStep]_vars

\* C24 witness: the construction has finished after a link from a node to
\* itself was passed to _add_road (src/main.py reads the 0 it stores on the
\* diagonal), after writes with the larger node first, and with a cell in
\* the last slot of the list.
C24_Witness ==
  /\ pc = "done"
  /\ rooms >= 1
  /\ \E k \in 1..Len(all_links) : all_links[k][1] = all_links[k][2]
  /\ \E w \in written : w[1] > w[2] /\ w[3] > 1
  /\ data[Len(data)] # None
  /\ MainGet(Table(data), total_nodes - 1, total_nodes - 2) = data[Len(data)]

\* C25: at every point of the construction every entry of the set of
\* updated outer links is a pair of two distinct outer nodes whose cell
\* holds an integer >= 1, so the value that _update reads at the pop is
\* never None and never 0; and every value ever stored in a cell (always
\* the cell of two distinct nodes) is an integer >= 1.
C25_FrontierUsable ==
  Allocated =>
    /\ \A p \in updated_outer_links :
         /\ p[1] # p[2]
         /\ IsOuterNode(p[1]) /\ IsOuterNode(p[2])
         /\ Get(data, p[1], p[2]) # None
         /\ Get(data, p[1], p[2])[1] >= 1
    /\ pc = "update" => upd.dist # None /\ upd.dist[1] >= 1
    /\ \A w \in written : w[1] # w[2] /\ w[3] \in Nat \ {0}
    /\ \A k \in DOMAIN data : data[k] # None => data[k][1] \in Nat \ {0}

\* C25 witness: _update has popped a pair whose cell was improved after the
\* pair had entered the set, has read the improved value, and the set still
\* holds pairs.
C25_Witness ==
  /\ pc = "update"
  /\ updated_outer_links # {}
  /\ upd.dist # None
  /\ \E w \in written :
       /\ {w[1], w[2]} = {upd.node1, upd.node2}
       /\ w[3] > upd.dist[1]

====
